---- MODULE Spec2Model ----
(***************************************************************************)
(* Frequency-band importance estimation of physioex.explain                *)
(* (freq_bands_explainer.py): the module-level compute_band_importance,    *)
(* the method FreqBandsExplainer.compute_band_importance run once per fold *)
(* and FreqBandsExplainer.explain, which dispatches the folds to a joblib  *)
(* pool.                                                                   *)
(*                                                                         *)
(* Abstractions.  A waveform row (one row of the array reshaped at line    *)
(* 61) is the set of frequency components, in Hz, it carries.  Probability *)
(* vectors are integers in percent.  Errors are recorded by name in err.   *)
(***************************************************************************)
EXTENDS Integers, Sequences, FiniteSets, TLC

\* ------------------------------------------------------------------ bounds
NFolds == 2
MaxSamples == 3
MaxBatchSize == 2
MaxChannels == 2
MaxJobs == 2
MaxFold == 10
MaxCalls == 3

\* ------------------------------------------------------- program constants
NClasses == 5
NChannels == 1
NTimes == 3000
SamplingRate == 100

Tasks == 0 .. (NFolds - 1)
\* owner id of the explainer object held by the process that calls explain
Main == NFolds
Owners == 0 .. NFolds

\* a fold id no fold has: the explainer object was never split
NoFold == NFolds

\* ------------------------------------------------------------------ inputs
ValidBands == << <<1, 4>>, <<8, 13>> >>
ValidNames == << "delta", "alpha" >>
BadBands == << <<0, 4>>, <<30, 50>> >>
BadNames == << "dc", "gamma" >>

BandArgs == { [bands |-> ValidBands, band_names |-> ValidNames],
              [bands |-> BadBands, band_names |-> BadNames] }

Min(a, b) == IF a < b THEN a ELSE b

Content(k) == << {2}, {10}, {2, 10}, {40} >>[(k % 4) + 1]

\* sample i of a data set: n_channels rows, and its label
Sample(off, i, C) == [j \in 1 .. C |-> Content(off + 2 * i + j)]
Label(off, i) == (off + i) % NClasses

\* the batch stream a data loader yields over n samples, B per batch
Batches(off, n, B, C, T) ==
    [b \in 1 .. ((n + B - 1) \div B) |->
        LET lo == (b - 1) * B + 1
            hi == Min(b * B, n)
        IN  [inputs     |-> [k \in 1 .. (hi - lo + 1) |-> Sample(off, lo + k - 1, C)],
             y          |-> [k \in 1 .. (hi - lo + 1) |-> Label(off, lo + k - 1)],
             n_channels |-> C,
             n_samples  |-> T]]

\* ------------------------------------------------------------- classifier
RECURSIVE SumSet(_)
SumSet(S) ==
    IF S = {} THEN 0
    ELSE LET f == CHOOSE x \in S : TRUE
         IN  (CASE f = 2 -> 1 [] f = 10 -> 2 [] OTHER -> 3) + SumSet(S \ {f})

RECURSIVE Score(_)
Score(sample) ==
    IF sample = << >> THEN 0 ELSE SumSet(Head(sample)) + Score(Tail(sample))

\* softmax(model(x)) for one sample: a vector of NClasses percentages.
\* "const" ignores its input; "band" depends on every row of the sample.
Proba(kind, sample) ==
    IF kind = "const"
    THEN [c \in 1 .. NClasses |-> 100 \div NClasses]
    ELSE [c \in 1 .. NClasses |->
            IF c = (Score(sample) % NClasses) + 1
            THEN 100 - 10 * (NClasses - 1) ELSE 10]

PredictProba(kind, inputs) == [b \in 1 .. Len(inputs) |-> Proba(kind, inputs[b])]

\* np.argmax(p, axis=-1): the first index of the maximum, a class in 0..n-1
ArgMax(p) ==
    (CHOOSE c \in 1 .. Len(p) :
        /\ \A d \in 1 .. Len(p) : p[d] <= p[c]
        /\ \A d \in 1 .. (c - 1) : p[d] < p[c]) - 1

ArgMaxRows(P) == [b \in 1 .. Len(P) |-> ArgMax(P[b])]

\* ------------------------------------------------------------ band filter
\* inputs.reshape(-1, seq_len * n_samples): batch_size * n_channels rows
Reshape(inputs, C) ==
    [r \in 1 .. (Len(inputs) * C) |-> inputs[((r - 1) \div C) + 1][((r - 1) % C) + 1]]

\* signal.butter accepts critical frequencies 0 < Wn < 1 only
ValidBandLax(band, fs) == 0 < 2 * band[1] /\ 2 * band[2] <= fs
ValidBand(band, fs) ==
    \A k \in 1 .. 2 : 0 < 2 * band[k] /\ 2 * band[k] < fs

\* signal.sosfilt with a band-stop filter: the components in the band go
SosFilt(sos, row) == {f \in row : f < sos[1] \/ f > sos[2]}

\* for index in range(batch_size): inputs[index] = sosfilt(sos, inputs[index])
FilterRows(sos, rows, B) ==
    [r \in 1 .. Len(rows) |-> IF r <= B THEN SosFilt(sos, rows[r]) ELSE rows[r]]

\* inputs.reshape(batch_size, seq_len, n_channels, n_samples)
ReshapeBack(rows, B, C) == [b \in 1 .. B |-> [j \in 1 .. C |-> rows[(b - 1) * C + j]]]

\* batch_importance = pred_proba - batch_importance
DiffReversed(base, pert) ==
    [b \in 1 .. Len(base) |-> [c \in 1 .. Len(base[b]) |-> pert[b][c] - base[b][c]]]
DiffDropped(base, pert) == pert
Diff(base, pert) ==
    [b \in 1 .. Len(base) |-> [c \in 1 .. Len(base[b]) |-> base[b][c] - pert[b][c]]]

\* np.concatenate(list).reshape(...): the per-batch arrays end to end
RECURSIVE ConcatenateRev(_)
ConcatenateRev(list) ==
    IF list = << >> THEN << >> ELSE ConcatenateRev(Tail(list)) \o Head(list)
RECURSIVE Concatenate(_)
Concatenate(list) ==
    IF list = << >> THEN << >> ELSE Head(list) \o Concatenate(Tail(list))


\* ------------------------------------------------------------------- state
VARIABLES
    \* arguments of the call and the environment it runs in
    bands, band_names,      \* the lists passed as parameters
    current_band,           \* the module globals' bindings of that name: {} or {index}
    plot_true, plot_pred,
    n_jobs,
    batch_size,             \* self.batch_size
    checkpoints,            \* self.checkpoints: fold -> the classifier its file holds, or "missing"
    keys,                   \* iteration order of self.checkpoints.keys()
    \* FreqBandsExplainer.explain
    mainPc, next, results, df,
    \* the explainer objects: the caller's (Main) and the copy each pool
    \* process unpickles; split = fold of the last dataset.split, class_weights
    \* = fold whose weights module_config["loss_params"] holds
    expl,
    \* one task per fold (task 0 alone when the function is called directly)
    pc, err, selfRef, model, dataloader, bi,
    net,                    \* the classifier object of each task: mode, weights, running statistics
    pred_proba, y_true, y_pred, importance,
    ret, saved, result,
    \* history: lines that looked current_band up in the module globals,
    \* batches a filtered prediction was computed for, and tasks that ran the
    \* classifier on a batch of which only some rows had been filtered
    reads, n_perturbed, partial,
    \* FineTuner.train_evaluate: the names os.listdir(self.ckp_path) gives, the
    \* calls made, what the last call did, and (history) the fold each
    \* checkpoint file was saved for
    ckp_dir, calls, last, saved_for

callVars == << bands, band_names, current_band, plot_true, plot_pred, n_jobs,
              batch_size, checkpoints, keys >>
tunerVars == << ckp_dir, calls, last, saved_for >>
paramVars == << callVars, tunerVars >>
mainVars == << mainPc, next, results, df >>
loopVars == << bi, pred_proba, y_true, y_pred, importance >>
histVars == << reads, n_perturbed, partial >>
vars == << paramVars, mainVars, expl, pc, err, selfRef, model, net, dataloader,
           loopVars, ret, saved, result, histVars >>

NoRet == [importance |-> << >>, y_pred |-> << >>, y_true |-> << >>]
NoObj == [split |-> NoFold, class_weights |-> NoFold]
NoNet == [training |-> FALSE, weights |-> NoFold, stats |-> 0]

CurrentBands == {{}} \cup {{k} : k \in 0 .. Len(ValidBands)}

NoCall == [fold |-> 0, fitted |-> FALSE, loaded |-> << >>, had_own |-> FALSE]

\* a FineTuner on a new checkpoint directory, before any train_evaluate
TunerInit ==
    /\ ckp_dir = {}
    /\ calls = 0
    /\ last = NoCall
    /\ saved_for = {}

TaskInit ==
    /\ TunerInit
    /\ err = [t \in Tasks |-> "none"]
    /\ bi = [t \in Tasks |-> 0]
    /\ pred_proba = [t \in Tasks |-> << >>]
    /\ y_true = [t \in Tasks |-> << >>]
    /\ y_pred = [t \in Tasks |-> << >>]
    /\ importance = [t \in Tasks |-> << >>]
    /\ ret = [t \in Tasks |-> NoRet]
    /\ saved = [t \in Tasks |-> << >>]
    /\ result = [t \in Tasks |-> << >>]
    /\ reads = {}
    /\ n_perturbed = [t \in Tasks |-> 0]
    /\ partial = [t \in Tasks |-> FALSE]
    /\ results = << >>
    /\ df = << >>
    /\ expl = [o \in Owners |-> NoObj]

\* A direct call compute_band_importance(bands, band_names, model, dataloader,
\* model_device, sampling_rate): task 0 stands at the head of the batch loop.
InitEstimator ==
    /\ \E a \in BandArgs : bands = a.bands /\ band_names = a.band_names
    /\ current_band \in CurrentBands
    /\ plot_true = FALSE /\ plot_pred = FALSE
    /\ n_jobs = 1
    /\ batch_size \in 1 .. MaxBatchSize
    /\ checkpoints = [f \in Tasks |-> "missing"]
    /\ keys = << >>
    /\ mainPc = "direct" /\ next = 1
    /\ pc = [t \in Tasks |-> IF t = 0 THEN "loop" ELSE "none"]
    /\ selfRef = [t \in Tasks |-> Main]
    /\ \E kind \in {"const", "band"} : model = [t \in Tasks |-> IF t = 0 THEN kind ELSE "none"]
    /\ \E mode \in BOOLEAN : net = [t \in Tasks |->
            IF t = 0 THEN [training |-> mode, weights |-> 0, stats |-> 0] ELSE NoNet]
    /\ \E off \in 0 .. 1, n \in 0 .. MaxSamples, C \in 1 .. MaxChannels,
          T \in {NTimes, NTimes \div 2} :
            dataloader = [t \in Tasks |->
                IF t = 0 THEN Batches(off, n, batch_size, C, T) ELSE << >>]
    /\ TaskInit

\* ------------------------------------- compute_band_importance (lines 33-95)
Batch(t) == dataloader[t][bi[t] + 1]

\* model(inputs): a forward pass. No optimizer runs, so the weights stay; a
\* module in training mode updates its running statistics, one in eval mode
\* is only read
Forward(n) == IF n.training THEN [n EXCEPT !.stats = @ + 1] ELSE n

\* lines 38-47: the true labels, the baseline prediction and its argmax
Baseline(t) ==
    /\ pc[t] = "loop"
    /\ bi[t] < Len(dataloader[t])
    /\ y_true' = [y_true EXCEPT ![t] = Append(@, Batch(t).y)]
    /\ pred_proba' = [pred_proba EXCEPT ![t] = PredictProba(model[t], Batch(t).inputs)]
    /\ y_pred' = [y_pred EXCEPT ![t] = Append(@, ArgMaxRows(pred_proba'[t]))]
    /\ net' = [net EXCEPT ![t] = Forward(@)]
    /\ pc' = [pc EXCEPT ![t] = "filter"]
    /\ UNCHANGED << paramVars, mainVars, expl, err, selfRef, model, dataloader,
                    bi, importance, ret, saved, result, histVars >>

Raise(t, e) ==
    /\ pc' = [pc EXCEPT ![t] = "raised"]
    /\ err' = [err EXCEPT ![t] = e]

\* the value the free variable current_band resolves to, if bound
CurrentBand == CHOOSE k \in current_band : TRUE

\* lines 67-68: bands[current_band] with current_band a free variable
BandLookupFails(t) ==
    /\ pc[t] = "filter"
    /\ \/ current_band = {} /\ Raise(t, "NameError")
       \/ current_band # {} /\ CurrentBand >= Len(bands) /\ Raise(t, "IndexError")
    /\ reads' = reads \cup {67}
    /\ UNCHANGED << paramVars, mainVars, expl, selfRef, model, net, dataloader,
                    loopVars, ret, saved, result, n_perturbed, partial >>

BandFound == current_band # {} /\ CurrentBand < Len(bands)
TheBand == bands[CurrentBand + 1]
TheName == band_names[CurrentBand + 1]

\* lines 69-73: signal.butter rejects the band
FilterDesignFails(t) ==
    /\ pc[t] = "filter"
    /\ BandFound
    /\ ~ValidBand(TheBand, SamplingRate)
    /\ Raise(t, "InvalidBandError")
    /\ reads' = reads \cup {67}
    /\ UNCHANGED << paramVars, mainVars, expl, selfRef, model, net, dataloader,
                    loopVars, ret, saved, result, n_perturbed, partial >>

\* lines 49-87 without an error: reshape, filter batch_size rows, reshape
\* back, predict on the filtered batch, append the difference
Perturbed(kind, batch, sos) ==
    LET B == Len(batch.inputs)
        C == batch.n_channels
    IN  PredictProba(kind, ReshapeBack(FilterRows(sos, Reshape(batch.inputs, C), B), B, C))

FilterAndPerturb(t) ==
    /\ pc[t] = "filter"
    /\ BandFound
    /\ ValidBand(TheBand, SamplingRate)
    /\ importance' = [importance EXCEPT ![t] =
            Append(@, Diff(pred_proba[t], Perturbed(model[t], Batch(t), TheBand)))]
    /\ net' = [net EXCEPT ![t] = Forward(@)]
    /\ bi' = [bi EXCEPT ![t] = @ + 1]
    /\ pc' = [pc EXCEPT ![t] = "loop"]
    /\ reads' = reads \cup {67}
    /\ n_perturbed' = [n_perturbed EXCEPT ![t] = @ + 1]
    /\ partial' = [partial EXCEPT ![t] =
            @ \/ Len(Batch(t).inputs) < Len(Reshape(Batch(t).inputs, Batch(t).n_channels))]
    /\ UNCHANGED << paramVars, mainVars, expl, err, selfRef, model, dataloader,
                    pred_proba, y_true, y_pred, ret, saved, result >>

\* lines 91-95: np.concatenate of an empty list raises ValueError
ConcatenateFails(t) ==
    /\ pc[t] = "loop"
    /\ bi[t] = Len(dataloader[t])
    /\ importance[t] = << >>
    /\ Raise(t, "ValueError")
    /\ UNCHANGED << paramVars, mainVars, expl, selfRef, model, net, dataloader,
                    loopVars, ret, saved, result, histVars >>

Return(t) ==
    /\ pc[t] = "loop"
    /\ bi[t] = Len(dataloader[t])
    /\ importance[t] # << >>
    /\ ret' = [ret EXCEPT ![t] = [importance |-> Concatenate(importance[t]),
                                  y_pred     |-> Concatenate(y_pred[t]),
                                  y_true     |-> Concatenate(y_true[t])]]
    /\ pc' = [pc EXCEPT ![t] = "estimated"]
    /\ UNCHANGED << paramVars, mainVars, expl, err, selfRef, model, net, dataloader,
                    loopVars, saved, result, histVars >>

Estimator(t) ==
    \/ Baseline(t)
    \/ BandLookupFails(t)
    \/ FilterDesignFails(t)
    \/ FilterAndPerturb(t)
    \/ ConcatenateFails(t)
    \/ Return(t)

NextEstimator == \E t \in Tasks : Estimator(t)

SpecEstimator == InitEstimator /\ [][NextEstimator]_vars


\* ------------------ FreqBandsExplainer.compute_band_importance (lines 118-189)
\* load_from_checkpoint: a new module with the weights of the fold's file,
\* in training mode as every new torch module is
LoadFromCheckpoint(fold) == [training |-> TRUE, weights |-> fold, stats |-> 0]

\* .eval()
EvalSkipped(n) == n
Eval(n) == [n EXCEPT !.training = FALSE]

\* lines 119-122: load_from_checkpoint(self.checkpoints[fold], ...).eval()
LoadCheckpoint(t) ==
    /\ pc[t] = "load"
    /\ \/ /\ checkpoints[t] = "missing"
          /\ Raise(t, "CheckpointLoadError")
          /\ UNCHANGED << model, net >>
       \/ /\ checkpoints[t] # "missing"
          /\ model' = [model EXCEPT ![t] = checkpoints[t]]
          /\ net' = [net EXCEPT ![t] = Eval(LoadFromCheckpoint(t))]
          /\ pc' = [pc EXCEPT ![t] = "split"]
          /\ UNCHANGED err
    /\ UNCHANGED << paramVars, mainVars, expl, selfRef, dataloader, loopVars,
                    ret, saved, result, histVars >>

\* line 125: self.dataset.split(fold) writes the explainer's dataset
SplitDataset(t) ==
    /\ pc[t] = "split"
    /\ expl' = [expl EXCEPT ![selfRef[t]].split = t]
    /\ pc' = [pc EXCEPT ![t] = "datamodule"]
    /\ UNCHANGED << paramVars, mainVars, err, selfRef, model, net, dataloader,
                    loopVars, ret, saved, result, histVars >>

\* lines 127-137: the data module over self.dataset as it is split now, the
\* class weights written into self.module_config, the train data loader
MakeDataModule(t) ==
    /\ pc[t] = "datamodule"
    /\ expl' = [expl EXCEPT ![selfRef[t]].class_weights = expl[selfRef[t]].split]
    /\ \E n \in 0 .. MaxSamples :
          dataloader' = [dataloader EXCEPT ![t] =
              Batches(expl[selfRef[t]].split, n, batch_size, NChannels, NTimes)]
    /\ pc' = [pc EXCEPT ![t] = "loop"]
    /\ UNCHANGED << paramVars, mainVars, err, selfRef, model, net, loopVars, ret,
                    saved, result, histVars >>

\* self.ckpt_path of the explainer
CkptPath == "models/run/"

\* self.ckpt_path + ("fold=%d_<kind>_band=" + band_names[current_band] + "_importance.png") % fold
PlotPathNoFold(fold, kind, name) ==
    CkptPath \o kind \o "_band=" \o name \o "_importance.png"
PlotPath(fold, kind, name) ==
    CkptPath \o "fold=" \o ToString(fold) \o "_" \o kind \o "_band=" \o name \o "_importance.png"

\* lines 139-162
PlotTrue(t) ==
    /\ pc[t] = "estimated"
    /\ mainPc # "direct"
    /\ IF plot_true
       THEN /\ saved' = [saved EXCEPT ![t] = Append(@, PlotPath(t, "true", TheName))]
            /\ reads' = reads \cup {150, 156, 158, 161}
       ELSE UNCHANGED << saved, reads >>
    /\ pc' = [pc EXCEPT ![t] = "plot_pred"]
    /\ UNCHANGED << paramVars, mainVars, expl, err, selfRef, model, net, dataloader,
                    loopVars, ret, result, n_perturbed, partial >>

\* line 188: np.column_stack([importance, y_pred, y_true]), one row a sample
ColumnStack(r) ==
    [i \in 1 .. Len(r.importance) |->
        [importance |-> r.importance[i], y_pred |-> r.y_pred[i], y_true |-> r.y_true[i]]]

\* lines 164-189: the plot for the predicted label, and the result returned
PlotPredReturn(t) ==
    /\ pc[t] = "plot_pred"
    /\ IF plot_pred
       THEN /\ saved' = [saved EXCEPT ![t] = Append(@, PlotPath(t, "pred", TheName))]
            /\ reads' = reads \cup {174, 180, 182, 185}
       ELSE UNCHANGED << saved, reads >>
    /\ result' = [result EXCEPT ![t] = ColumnStack(ret[t])]
    /\ pc' = [pc EXCEPT ![t] = "done"]
    /\ UNCHANGED << paramVars, mainVars, expl, err, selfRef, model, net, dataloader,
                    loopVars, ret, n_perturbed, partial >>

\* ------------------------------- FreqBandsExplainer.explain (lines 191-217)
Running(t) == pc[t] \notin {"none", "done", "raised", "aborted"}

\* Parallel(n_jobs=n_jobs): one job runs the tasks in the calling process, on
\* self; more jobs run them in pool processes, each on its unpickled copy
WorkerSelfShared(t) == Main
WorkerSelf(t) == IF n_jobs = 1 THEN Main ELSE t

\* line 195: the pool starts the task of the next key while a job is free
Dispatch ==
    /\ mainPc = "parallel"
    /\ next <= Len(keys)
    /\ Cardinality({t \in Tasks : Running(t)}) < n_jobs
    /\ \A t \in Tasks : pc[t] # "raised"
    /\ LET t == keys[next]
       IN  /\ pc' = [pc EXCEPT ![t] = "load"]
           /\ selfRef' = [selfRef EXCEPT ![t] = WorkerSelf(t)]
           /\ expl' = IF WorkerSelf(t) = t THEN [expl EXCEPT ![t] = expl[Main]] ELSE expl
    /\ next' = next + 1
    /\ UNCHANGED << paramVars, mainPc, results, df, err, model, net, dataloader,
                    loopVars, ret, saved, result, histVars >>

\* line 195: a task's exception is raised again in the caller, the other
\* tasks are aborted, and explain ends by that exception
ParallelRaises ==
    /\ mainPc = "parallel"
    /\ \E t \in Tasks : pc[t] = "raised"
    /\ mainPc' = "raised"
    /\ pc' = [t \in Tasks |-> IF Running(t) THEN "aborted" ELSE pc[t]]
    /\ UNCHANGED << paramVars, next, results, df, expl, err, selfRef, model, net,
                    dataloader, loopVars, ret, saved, result, histVars >>

\* lines 195-217: the results in submission order, and the table returned
ExplainReturns ==
    /\ mainPc = "parallel"
    /\ next > Len(keys)
    /\ \A t \in Tasks : pc[t] = "done"
    /\ results' = [i \in 1 .. Len(keys) |-> result[keys[i]]]
    /\ df' = << >>
    /\ mainPc' = "returned"
    /\ UNCHANGED << paramVars, next, expl, pc, err, selfRef, model, net, dataloader,
                    loopVars, ret, saved, result, histVars >>

\* the registry's keys in ascending or in descending order of insertion
KeyOrders(S) ==
    LET n == Cardinality(S)
    IN  {[i \in 1 .. n |-> i - 1], [i \in 1 .. n |-> n - i]}

\* explain(bands, band_names, save_csv, plot_pred, plot_true, n_jobs) on an
\* explainer whose registry names every fold
Init ==
    /\ \E a \in BandArgs : bands = a.bands /\ band_names = a.band_names
    /\ current_band \in {{}} \cup {{k} : k \in 0 .. (Len(bands) - 1)}
    /\ plot_true \in BOOLEAN /\ plot_pred \in BOOLEAN
    /\ n_jobs \in 1 .. MaxJobs
    /\ batch_size = MaxBatchSize
    /\ checkpoints \in [Tasks -> {"missing", "band"}]
    /\ keys \in KeyOrders(Tasks)
    /\ mainPc = "parallel" /\ next = 1
    /\ pc = [t \in Tasks |-> "none"]
    /\ selfRef = [t \in Tasks |-> Main]
    /\ model = [t \in Tasks |-> "none"]
    /\ net = [t \in Tasks |-> NoNet]
    /\ dataloader = [t \in Tasks |-> << >>]
    /\ TaskInit

Worker(t) ==
    \/ LoadCheckpoint(t)
    \/ SplitDataset(t)
    \/ MakeDataModule(t)
    \/ Estimator(t)
    \/ PlotTrue(t)
    \/ PlotPredReturn(t)

Next ==
    \/ Dispatch
    \/ ParallelRaises
    \/ ExplainReturns
    \/ \E t \in Tasks : Worker(t)

Spec == Init /\ [][Next]_vars


\* ------------------------------------------------------------- properties
RECURSIVE Total(_)
Total(stream) ==
    IF stream = << >> THEN 0 ELSE Len(Head(stream).y) + Total(Tail(stream))

\* the batch that holds the i-th sample of a stream, and its place there
RECURSIVE BatchOf(_, _)
BatchOf(stream, i) ==
    IF i <= Len(Head(stream).y) THEN 1
    ELSE 1 + BatchOf(Tail(stream), i - Len(Head(stream).y))

RECURSIVE PlaceOf(_, _)
PlaceOf(stream, i) ==
    IF i <= Len(Head(stream).y) THEN i
    ELSE PlaceOf(Tail(stream), i - Len(Head(stream).y))

Returned(t) == ret[t] # NoRet

\* C1: when compute_band_importance returns over a stream of N samples, the
\* predicted labels, the true labels and the importance rows are N each, and
\* the i-th of each is the one of the i-th sample of the stream
C1_AlignedArrays ==
    \A t \in Tasks : Returned(t) =>
        LET st == dataloader[t]
            N == Total(st)
        IN  /\ Len(ret[t].y_pred) = N
            /\ Len(ret[t].y_true) = N
            /\ Len(ret[t].importance) = N
            /\ \A i \in 1 .. N :
                  LET b == BatchOf(st, i)
                      k == PlaceOf(st, i)
                      base == Proba(model[t], st[b].inputs[k])
                      pert == Perturbed(model[t], st[b], TheBand)[k]
                  IN  /\ ret[t].y_true[i] = st[b].y[k]
                      /\ ret[t].y_pred[i] = ArgMax(base)
                      /\ ret[t].importance[i] = [c \in 1 .. NClasses |-> base[c] - pert[c]]

\* a call returned over two batches of different sizes
C1_Witness ==
    \E t \in Tasks :
        /\ Returned(t)
        /\ Len(dataloader[t]) >= 2
        /\ Len(ret[t].y_true) = MaxSamples
        /\ ret[t].y_true[1] # ret[t].y_true[MaxSamples]

\* C2: the importance of every sample of every batch is the baseline
\* probabilities minus the ones on the filtered batch, class by class, and the
\* predicted label is the argmax of the baseline, recorded before the batch
\* is filtered
C2_BaselineMinusPerturbed ==
    \A t \in Tasks :
        /\ \A b \in 1 .. Len(importance[t]) :
              LET base == PredictProba(model[t], dataloader[t][b].inputs)
                  pert == Perturbed(model[t], dataloader[t][b], TheBand)
              IN  /\ Len(importance[t][b]) = Len(base)
                  /\ \A k \in 1 .. Len(base) : \A c \in 1 .. NClasses :
                        importance[t][b][k][c] = base[k][c] - pert[k][c]
        /\ \A b \in 1 .. Len(y_pred[t]) :
              y_pred[t][b] = ArgMaxRows(PredictProba(model[t], dataloader[t][b].inputs))
        /\ Len(importance[t]) = n_perturbed[t]
        /\ Len(y_pred[t]) >= n_perturbed[t]
        /\ pc[t] = "filter" =>
              /\ Len(y_pred[t]) = n_perturbed[t] + 1
              /\ pred_proba[t] = PredictProba(model[t], Batch(t).inputs)

\* removing the band lowered the probability of a class of some sample
C2_Witness ==
    \E t \in Tasks : \E b \in 1 .. Len(importance[t]) :
        \E k \in 1 .. Len(importance[t][b]) : \E c \in 1 .. NClasses :
            importance[t][b][k][c] > 0

\* C3: with a classifier that gives every input the same probabilities, the
\* importance of every sample is the zero vector
C3_ConstantClassifierZero ==
    \A t \in Tasks : model[t] = "const" =>
        /\ \A b \in 1 .. Len(importance[t]) : \A k \in 1 .. Len(importance[t][b]) :
              \A c \in 1 .. NClasses : importance[t][b][k][c] = 0
        /\ \A i \in 1 .. Len(ret[t].importance) :
              \A c \in 1 .. NClasses : ret[t].importance[i][c] = 0

C3_Witness ==
    \E t \in Tasks :
        /\ model[t] = "const"
        /\ Returned(t)
        /\ Len(ret[t].importance) = MaxSamples

\* C4: the band that designs the filter and names the plots is the one the
\* caller passed; no line looks the band up in the module globals
C4_BandIsParameter == reads = {}

\* C5: the table explain returns holds every row of every fold's table
C5_CombinedTable ==
    mainPc = "returned" =>
        \A t \in Tasks : \A i \in 1 .. Len(result[t]) :
            \E j \in 1 .. Len(df) : df[j] = result[t][i]

\* C6: every row of every fold's result carries the fold that produced it
C6_FoldTagged ==
    \A t \in Tasks : \A i \in 1 .. Len(result[t]) :
        /\ "fold" \in DOMAIN result[t][i]
        /\ result[t][i].fold = t

\* C7: when the only failure is a checkpoint that does not load, the result
\* of every fold that completed is among the results explain ends with
C7_FoldIsolation ==
    ( /\ mainPc \in {"returned", "raised"}
      /\ \E f \in Tasks : err[f] = "CheckpointLoadError"
      /\ \A f \in Tasks : err[f] \in {"none", "CheckpointLoadError"} )
    => \A g \in Tasks : pc[g] = "done" =>
          \E i \in 1 .. Len(results) : results[i] = result[g]

\* C8: no explainer object is written while a task other than the writer is
\* running on it
C8_NoConcurrentSharedWrite ==
    [][\A o \in Owners : expl'[o] # expl[o] =>
          Cardinality({t \in Tasks : Running(t) /\ selfRef[t] = o}) <= 1]_vars

\* two tasks ran at once and each wrote the explainer object it holds
C8_Witness ==
    \E t \in Tasks : \E u \in Tasks :
        /\ t # u
        /\ Running(t) /\ Running(u)
        /\ expl[selfRef[t]].split = t
        /\ expl[selfRef[u]].split = u

OutOfRange(band) ==
    \E k \in 1 .. 2 : band[k] <= 0 \/ 2 * band[k] >= SamplingRate

\* C9: with a cut-off outside (0, Nyquist) the filter design raises the
\* invalid-band error before any filtered prediction, and nothing is returned
C9_InvalidBandFatal ==
    \A t \in Tasks : (BandFound /\ OutOfRange(TheBand)) =>
        /\ n_perturbed[t] = 0
        /\ importance[t] = << >>
        /\ ~Returned(t)
        /\ pc[t] \notin {"estimated", "plot_pred", "done"}
        /\ (pc[t] = "raised" /\ y_pred[t] # << >>) => err[t] = "InvalidBandError"

C9_Witness ==
    \E t \in Tasks :
        /\ err[t] = "InvalidBandError"
        /\ y_pred[t] # << >>
        /\ n_perturbed[t] = 0

\* C10: no importance is computed from a batch whose channel count or sample
\* count is not the expected one, nor from a batch filtered in part
C10_ShapeMismatchSurfaced ==
    \A t \in Tasks :
        /\ \A b \in 1 .. Len(importance[t]) :
              /\ dataloader[t][b].n_channels = NChannels
              /\ dataloader[t][b].n_samples = NTimes
        /\ ~partial[t]


\* C11: the classifier a fold loads is in eval mode, and after any number of
\* batches its weights and its running statistics are the ones it was loaded
\* with
C11_ClassifierFrozen ==
    \A t \in Tasks : (mainPc # "direct" /\ model[t] # "none") =>
        net[t] = [training |-> FALSE, weights |-> t, stats |-> 0]

\* a fold returned after two batches, four forward passes
C11_Witness ==
    \E t \in Tasks :
        /\ pc[t] = "done"
        /\ n_perturbed[t] >= 2
        /\ net[t].weights = t


\* fold numbers and band names that could make two paths run together
PathFolds == {0, 1, 10, 11}
PathNames == {"delta", "alpha", "alpha_importance.png", "pred_band=alpha", "1_true_band=alpha"}
PathKinds == {"true", "pred"}

\* paths that differ in fold, kind or band name are different paths
PlotPathsDiffer ==
    \A a \in PathFolds \X PathKinds \X PathNames :
        \A b \in PathFolds \X PathKinds \X PathNames :
            a # b => PlotPath(a[1], a[2], a[3]) # PlotPath(b[1], b[2], b[3])

\* the plots the tasks of this call have written: (task, index)
Written == {w \in Tasks \X (1 .. 2) : w[2] <= Len(saved[w[1]])}

\* C12: every plot is written to fold=<fold>_<true|pred>_band=<band
\* name>_importance.png under the checkpoint path, two writes that differ in
\* fold, band name or kind have different paths, and no two writes of one
\* explain call have the same path
C12_DistinctPlotPaths ==
    /\ \A w \in Written : \E kind \in PathKinds :
          saved[w[1]][w[2]] =
              "models/run/fold=" \o ToString(w[1]) \o "_" \o kind \o "_band=" \o TheName
                  \o "_importance.png"
    /\ \A w \in Written : \A v \in Written :
          w # v => saved[w[1]][w[2]] # saved[v[1]][v[2]]
    /\ PlotPathsDiffer

\* a task has written both its plots while another, still running, has
\* written its first
C12_Witness ==
    \E t \in Tasks : \E u \in Tasks :
        /\ t # u
        /\ pc[t] = "plot_pred" /\ Len(saved[t]) = 1
        /\ pc[u] = "done" /\ Len(saved[u]) = 2


\* --------------------------- FineTuner.train_evaluate (finetuner.py 108-250)
\* "%d" % n
RECURSIVE Digits(_)
Digits(n) ==
    IF n < 0 THEN << "-" >> \o Digits(0 - n)
    ELSE IF n < 10 THEN << ToString(n) >>
    ELSE Digits(n \div 10) \o << ToString(n % 10) >>

\* "fold=%d" % fold, as a sequence of characters
FoldTag(fold) == << "f", "o", "l", "d", "=" >> \o Digits(fold)

\* the file ModelCheckpoint saves for filename "fold=%d-{epoch}-..." % fold;
\* of the metrics that follow the fold only the epoch is kept
CheckpointName(fold, epoch) ==
    FoldTag(fold) \o << "-", "e", "p", "o", "c", "h", "=" >> \o Digits(epoch)
        \o << ".", "c", "k", "p", "t" >>

\* the directory CSVLogger(save_dir=self.ckp_path) makes
LogsName == << "l", "i", "g", "h", "t", "n", "i", "n", "g", "_", "l", "o", "g", "s" >>

\* needle in hay, for strings
Contains(needle, hay) ==
    \E i \in 0 .. (Len(hay) - Len(needle)) : SubSeq(hay, i + 1, i + Len(needle)) = needle

\* lines 184-187: [check for check in os.listdir(ckp_path) if "fold=%d" % fold in check]
SavedChecks(fold) == {check \in ckp_dir : Contains(FoldTag(fold), check)}

FoldNumbers == (0 - 1) .. MaxFold

HasOwn(fold) == \E e \in saved_for : e[1] \in ckp_dir /\ e[2] = fold

explainVars == << callVars, mainVars, expl, pc, err, selfRef, model, net,
                  dataloader, loopVars, ret, saved, result, histVars >>

\* lines 188-196: a name matches, so saved_checks[0] is loaded and nothing is
\* trained; os.listdir gives the names in no particular order
ReuseCheckpoint(fold) ==
    /\ calls < MaxCalls
    /\ SavedChecks(fold) # {}
    /\ \E first \in SavedChecks(fold) :
          last' = [fold |-> fold, fitted |-> FALSE, loaded |-> first,
                   had_own |-> HasOwn(fold)]
    /\ calls' = calls + 1
    /\ UNCHANGED << ckp_dir, saved_for, explainVars >>

\* lines 197-205: no name matches, so trainer.fit runs, the callback saves the
\* best checkpoint of this fold and that file is loaded
TrainModel(fold) ==
    /\ calls < MaxCalls
    /\ SavedChecks(fold) = {}
    /\ \E epoch \in 0 .. 1 :
          /\ ckp_dir' = ckp_dir \cup {CheckpointName(fold, epoch), LogsName}
          /\ saved_for' = saved_for \cup {<< CheckpointName(fold, epoch), fold >>}
          /\ last' = [fold |-> fold, fitted |-> TRUE,
                      loaded |-> CheckpointName(fold, epoch), had_own |-> HasOwn(fold)]
    /\ calls' = calls + 1
    /\ UNCHANGED explainVars

\* a FineTuner whose train_evaluate is called for one fold after another
InitFineTuner ==
    /\ bands = ValidBands /\ band_names = ValidNames
    /\ current_band = {}
    /\ plot_true = FALSE /\ plot_pred = FALSE
    /\ n_jobs = 1
    /\ batch_size = 1
    /\ checkpoints = [f \in Tasks |-> "missing"]
    /\ keys = << >>
    /\ mainPc = "idle" /\ next = 1
    /\ pc = [t \in Tasks |-> "none"]
    /\ selfRef = [t \in Tasks |-> Main]
    /\ model = [t \in Tasks |-> "none"]
    /\ net = [t \in Tasks |-> NoNet]
    /\ dataloader = [t \in Tasks |-> << >>]
    /\ TaskInit

NextFineTuner == \E fold \in FoldNumbers : ReuseCheckpoint(fold) \/ TrainModel(fold)

SpecFineTuner == InitFineTuner /\ [][NextFineTuner]_vars

\* C13: train_evaluate(fold) trains exactly when the directory held no
\* checkpoint saved for that fold, and a checkpoint it reuses is one that was
\* saved for that fold
C13_ReuseOwnCheckpoint ==
    calls > 0 =>
        /\ last.fitted <=> ~last.had_own
        /\ ~last.fitted => << last.loaded, last.fold >> \in saved_for

====
